---- MODULE Spec2Model ----
(***************************************************************************)
(* esp32Blink (src/src/main.cpp): setup() initialises the output and       *)
(* mounts LittleFS; loop() toggles the output, sleeps, and re-runs         *)
(* initLittleFs() whenever the static counter `count` has passed 10.       *)
(*                                                                         *)
(* One action per Arduino handler (setup, loop).  The flash filesystem     *)
(* driver and the GPIO / NeoPixel driver are the environment: what the     *)
(* driver answers at a mount is drawn from FsStates and kept in `fs`.      *)
(* `serial` holds the lines the last handler invocation printed.           *)
(***************************************************************************)
EXTENDS Integers, Sequences, FiniteSets, TLC

\* ---- bounds of the model ------------------------------------------------
MaxToggles == 32
MaxEntries == 2

\* ---- program constants --------------------------------------------------
\* Mutant of countInit: the counter starts at 0.
countInit_Zero == 5 - 5

countInit == 5
remountAfter == 10
setupDelay == 200
loopDelay == 2500
remountDelay == 2000
delayTimeInit == 2000
degradedDelay == 1000

VARIABLES
  variant,      \* build flag: "LED" (USE_LED) or "NEOPIXEL" (USE_NEOPIXEL)
  pc,           \* "boot": setup() has not run yet; "loop": loop() is next
  hw,           \* pin: level of LED_PIN; isOn: static flag of toggleOutput;
                \* pixelBuf: pixel 0 of neoPixel's buffer is lit;
                \* pixelShown: the pixel as last latched by show()
  count,        \* static int count of loop()
  usedPercent,  \* float usedPercent computed by the last handler invocation:
                \* <<>> when printLittleFsUsage() did not run in it
  serial,       \* lines printed by the last handler invocation
  slept,        \* argument of every delay() of the last handler invocation
  fs,           \* what the filesystem driver answered at the last mount
  toggles,      \* history: number of toggleOutput() calls so far
  clock,        \* history: total milliseconds slept
  remountAt,    \* history: value of `toggles` at each initLittleFs() of loop()
  fsLog,        \* history: one record per initLittleFs() call
  delayTime     \* uint32_t delayTime of the build with a configurable interval
                \* (project_en.md 138); main.cpp has no such variable and
                \* leaves it alone

vars == <<variant, pc, hw, count, usedPercent, serial, slept, fs,
          toggles, clock, remountAt, fsLog, delayTime>>

\* ---- serial lines -------------------------------------------------------
\* kind: which print statement; text: the string printed; name, sized, num:
\* the entry name, whether a number is printed, and the number.
Line(kind, text, num) ==
  [kind |-> kind, text |-> text, name |-> "", sized |-> TRUE, num |-> num]

Text(kind, text) ==
  [kind |-> kind, text |-> text, name |-> "", sized |-> FALSE, num |-> 0]

progVersion == "1.1.0"

\* ---- the filesystem driver's answers ------------------------------------
\* A File as the sketch sees it: `valid` is File::operator bool.
NoFile ==
  [valid |-> FALSE, name |-> "", isDirectory |-> FALSE, size |-> 0,
   children |-> <<>>]

OldLog ==
  [valid |-> TRUE, name |-> "old.log", isDirectory |-> FALSE, size |-> 7,
   children |-> <<>>]

DataBin ==
  [valid |-> TRUE, name |-> "data.bin", isDirectory |-> FALSE, size |-> 42,
   children |-> <<>>]

Logs ==
  [valid |-> TRUE, name |-> "logs", isDirectory |-> TRUE, size |-> 0,
   children |-> <<OldLog>>]

\* What successive openNextFile() calls on the root return, in the driver's
\* order; an invalid File inside the sequence is an entry the driver could
\* not open.  Past the end the driver returns an invalid File.
DriverResults == {NoFile, DataBin, Logs}

Streams == UNION {[1..n -> DriverResults] : n \in 0..MaxEntries}

\* The File returned by fileSystem.open("/").
Roots ==
  {[valid |-> FALSE, isDirectory |-> FALSE, results |-> <<>>],
   [valid |-> TRUE, isDirectory |-> FALSE, results |-> <<>>]}
  \cup {[valid |-> TRUE, isDirectory |-> TRUE, results |-> s] : s \in Streams}

\* What LittleFS.totalBytes() and LittleFS.usedBytes() return: an unformatted
\* size of 0, a partly used and a full filesystem, and 250000 of 1000000.
UsageSnapshots ==
  {[totalBytes |-> 0, usedBytes |-> 0],
   [totalBytes |-> 3, usedBytes |-> 2],
   [totalBytes |-> 3, usedBytes |-> 3],
   [totalBytes |-> 1000000, usedBytes |-> 250000]}

NoMount ==
  [mounted |-> FALSE, totalBytes |-> 0, usedBytes |-> 0,
   root |-> [valid |-> FALSE, isDirectory |-> FALSE, results |-> <<>>]]

\* LittleFS.begin(true) either fails, or succeeds on some filesystem.
FsStates ==
  {NoMount}
  \cup {[mounted |-> TRUE, totalBytes |-> s.totalBytes,
         usedBytes |-> s.usedBytes, root |-> r] :
          s \in UsageSnapshots, r \in Roots}

\* ---- float arithmetic ---------------------------------------------------
\* A float is kept as an exact fraction num/den (den > 0) or as inf / nan;
\* the byte counts of UsageSnapshots and their products with 100 are exactly
\* representable in a float, so only the quotient is idealised.
Float(num) == [class |-> "finite", num |-> num, den |-> 1]

\* IEEE division of two non-negative floats of integral value.
FDiv(a, b) ==
  IF b.num = 0
    THEN [class |-> IF a.num = 0 THEN "nan" ELSE "inf", num |-> 0, den |-> 1]
    ELSE [class |-> "finite", num |-> a.num * b.den, den |-> a.den * b.num]

FMul(a, b) == [class |-> "finite", num |-> a.num * b.num, den |-> a.den * b.den]

\* printf("%.2f"): the number of hundredths printed, rounded to nearest.
Fmt2(f) ==
  IF f.class = "finite"
    THEN Line("usage", "finite",
              100 * (f.num \div f.den)
              + (2 * 100 * (f.num % f.den) + f.den) \div (2 * f.den))
    ELSE Text("usage", f.class)

\* ---- listFiles (main.cpp 22-59) -----------------------------------------
\* rootDirectory.openNextFile(), the pos-th call on this directory handle.
openNextFile(rootDirectory, pos) ==
  IF pos <= Len(rootDirectory.results) THEN rootDirectory.results[pos] ELSE NoFile

\* One pass of the while body: "%s%s" then "\tSIZE: %u\n" or println().
EntryLine(currentEntry) ==
  [kind |-> "entry",
   text |-> IF currentEntry.isDirectory THEN "DIR : " ELSE "FILE: ",
   name |-> currentEntry.name,
   sized |-> ~currentEntry.isDirectory,
   num |-> IF ~currentEntry.isDirectory THEN currentEntry.size ELSE 0]

\* Mutant of listLoop: descends into every subdirectory it lists.
RECURSIVE listLoop_Recurse(_, _)
listLoop_Recurse(rootDirectory, pos) ==
  LET currentEntry == openNextFile(rootDirectory, pos)
  IN  IF currentEntry.valid
        THEN <<EntryLine(currentEntry)>>
             \o (IF currentEntry.isDirectory
                   THEN listLoop_Recurse([results |-> currentEntry.children], 1)
                   ELSE <<>>)
             \o listLoop_Recurse(rootDirectory, pos + 1)
        ELSE <<>>

\* while (currentEntry) { ...; currentEntry = rootDirectory.openNextFile(); }
\* where currentEntry is the result of the pos-th openNextFile() call.
RECURSIVE listLoop(_, _)
listLoop(rootDirectory, pos) ==
  LET currentEntry == openNextFile(rootDirectory, pos)
  IN  IF currentEntry.valid
        THEN <<EntryLine(currentEntry)>> \o listLoop(rootDirectory, pos + 1)
        ELSE <<>>

\* Mutant of listFiles: the test of the first openNextFile() result inverted.
listFiles_InfoInverted(fileSystem) ==
  LET rootDirectory == fileSystem.root
  IN  <<Text("blank", "")>> \o
      IF ~rootDirectory.valid \/ ~rootDirectory.isDirectory
        THEN <<Text("openError", "Error: Could not open root directory.")>>
        ELSE (IF openNextFile(rootDirectory, 1).valid
                THEN <<Text("noFiles", "Info: No files found.")>>
                ELSE <<>>)
             \o listLoop(rootDirectory, 1)

\* Mutant of listFiles: the return after the open error is missing.
listFiles_NoReturn(fileSystem) ==
  LET rootDirectory == fileSystem.root
  IN  <<Text("blank", "")>>
      \o (IF ~rootDirectory.valid \/ ~rootDirectory.isDirectory
            THEN <<Text("openError", "Error: Could not open root directory.")>>
            ELSE <<>>)
      \o (IF ~openNextFile(rootDirectory, 1).valid
            THEN <<Text("noFiles", "Info: No files found.")>>
            ELSE <<>>)
      \o listLoop(rootDirectory, 1)

listFiles(fileSystem) ==
  LET rootDirectory == fileSystem.root
  IN  <<Text("blank", "")>> \o
      IF ~rootDirectory.valid \/ ~rootDirectory.isDirectory
        THEN <<Text("openError", "Error: Could not open root directory.")>>
        ELSE (IF ~openNextFile(rootDirectory, 1).valid
                THEN <<Text("noFiles", "Info: No files found.")>>
                ELSE <<>>)
             \o listLoop(rootDirectory, 1)

\* ---- printLittleFsUsage (main.cpp 61-77) --------------------------------
\* Mutant of ComputeUsedPercent: the guard on totalBytes is missing.
ComputeUsedPercent_NoGuard(totalBytes, usedBytes) ==
  FDiv(FMul(Float(usedBytes), Float(100)), Float(totalBytes))

\* float usedPercent = 0.0F; if (totalBytes > 0) { usedPercent = ...; }
ComputeUsedPercent(totalBytes, usedBytes) ==
  IF totalBytes > 0
    THEN FDiv(FMul(Float(usedBytes), Float(100)), Float(totalBytes))
    ELSE Float(0)

printLittleFsUsage(fileSystem) ==
  LET p == ComputeUsedPercent(fileSystem.totalBytes, fileSystem.usedBytes)
  IN  [usedPercent |-> <<p>>,
       lines |-> <<Text("blank", ""),
                   Line("total", "LittleFS total bytes: ", fileSystem.totalBytes),
                   Line("used", "LittleFS used bytes : ", fileSystem.usedBytes),
                   Fmt2(p)>>]

\* ---- initOutput, toggleOutput (main.cpp 79-125) -------------------------
digitalRead(h) == h.pin

initOutput(h) ==
  IF variant = "LED"
    THEN [hw |-> [h EXCEPT !.pin = FALSE],
          lines |-> <<Text("using", "LED")>>]
    ELSE [hw |-> [h EXCEPT !.pixelBuf = FALSE, !.pixelShown = FALSE],
          lines |-> <<Text("using", "NeoPixel")>>]

\* Mutant of toggleOutput: the pixel variant never flips isOn.
toggleOutput_NoFlip(h) ==
  IF variant = "LED"
    THEN LET written == [h EXCEPT !.pin = ~digitalRead(h)]
         IN  [hw |-> written,
              lines |-> <<Text("toggle",
                              IF digitalRead(written) THEN "ON" ELSE "OFF")>>]
    ELSE LET buffered == [h EXCEPT !.pixelBuf = ~h.isOn]
         IN  [hw |-> [buffered EXCEPT !.pixelShown = buffered.pixelBuf],
              lines |-> <<Text("toggle", IF h.isOn THEN "OFF" ELSE "ON")>>]

\* Mutant of toggleOutput: the pin variant prints the level read before the
\* write, the pixel variant prints after flipping isOn.
toggleOutput_StaleReport(h) ==
  IF variant = "LED"
    THEN LET written == [h EXCEPT !.pin = ~digitalRead(h)]
         IN  [hw |-> written,
              lines |-> <<Text("toggle",
                              IF digitalRead(h) THEN "ON" ELSE "OFF")>>]
    ELSE LET buffered == [h EXCEPT !.pixelBuf = ~h.isOn]
         IN  [hw |-> [buffered EXCEPT !.pixelShown = buffered.pixelBuf,
                                      !.isOn = ~h.isOn],
              lines |-> <<Text("toggle", IF ~h.isOn THEN "OFF" ELSE "ON")>>]

toggleOutput(h) ==
  IF variant = "LED"
    THEN LET written == [h EXCEPT !.pin = ~digitalRead(h)]
         IN  [hw |-> written,
              lines |-> <<Text("toggle",
                              IF digitalRead(written) THEN "ON" ELSE "OFF")>>]
    ELSE LET buffered == [h EXCEPT !.pixelBuf = ~h.isOn]
         IN  [hw |-> [buffered EXCEPT !.pixelShown = buffered.pixelBuf,
                                      !.isOn = ~h.isOn],
              lines |-> <<Text("toggle", IF h.isOn THEN "OFF" ELSE "ON")>>]

\* ---- initLittleFs (main.cpp 127-142) ------------------------------------
\* Mutant of initLittleFs: the return after the mount failure is missing.
initLittleFs_NoReturn(fileSystem) ==
  LET usage == printLittleFsUsage(fileSystem)
  IN  [usedPercent |-> usage.usedPercent,
       lines |-> <<Text("initFs", "Initializing LittleFS..."),
                   IF fileSystem.mounted
                     THEN Text("mountOk", "Info: LittleFS initialization OK.")
                     ELSE Text("mountFail",
                               "Error: LittleFS initialization failed.")>>
                 \o usage.lines
                 \o listFiles(fileSystem)
                 \o <<Text("blank", "")>>]

\* Mutant of initLittleFs: the usage report is printed before the mount
\* result is tested.
initLittleFs_UsageFirst(fileSystem) ==
  LET usage == printLittleFsUsage(fileSystem)
  IN  IF ~fileSystem.mounted
        THEN [usedPercent |-> usage.usedPercent,
              lines |-> <<Text("initFs", "Initializing LittleFS...")>>
                        \o usage.lines
                        \o <<Text("mountFail",
                                  "Error: LittleFS initialization failed.")>>]
        ELSE [usedPercent |-> usage.usedPercent,
              lines |-> <<Text("initFs", "Initializing LittleFS...")>>
                        \o usage.lines
                        \o <<Text("mountOk",
                                  "Info: LittleFS initialization OK.")>>
                        \o listFiles(fileSystem)
                        \o <<Text("blank", "")>>]

\* Mutant of initLittleFs: the directory is listed before the usage report.
initLittleFs_ListFirst(fileSystem) ==
  IF ~fileSystem.mounted
    THEN [usedPercent |-> <<>>,
          lines |-> <<Text("initFs", "Initializing LittleFS..."),
                      Text("mountFail", "Error: LittleFS initialization failed.")>>]
    ELSE LET usage == printLittleFsUsage(fileSystem)
         IN  [usedPercent |-> usage.usedPercent,
              lines |-> <<Text("initFs", "Initializing LittleFS..."),
                          Text("mountOk", "Info: LittleFS initialization OK.")>>
                        \o listFiles(fileSystem)
                        \o usage.lines
                        \o <<Text("blank", "")>>]

initLittleFs(fileSystem) ==
  IF ~fileSystem.mounted
    THEN [usedPercent |-> <<>>,
          lines |-> <<Text("initFs", "Initializing LittleFS..."),
                      Text("mountFail", "Error: LittleFS initialization failed.")>>]
    ELSE LET usage == printLittleFsUsage(fileSystem)
         IN  [usedPercent |-> usage.usedPercent,
              lines |-> <<Text("initFs", "Initializing LittleFS..."),
                          Text("mountOk", "Info: LittleFS initialization OK.")>>
                        \o usage.lines
                        \o listFiles(fileSystem)
                        \o <<Text("blank", "")>>]

\* ---- history ------------------------------------------------------------
Has(lines, kind) == \E i \in DOMAIN lines : lines[i].kind = kind

Count(lines, kind) == Cardinality({i \in DOMAIN lines : lines[i].kind = kind})

RECURSIVE Sum(_)
Sum(s) == IF s = <<>> THEN 0 ELSE Head(s) + Sum(Tail(s))

\* What one initLittleFs() call did, read off the lines it printed.
LogEntry(at, lines) ==
  [at |-> at,
   mounted |-> Has(lines, "mountOk"),
   list |-> IF ~Has(lines, "mountOk") THEN "skipped"
            ELSE IF Has(lines, "openError") THEN "openError" ELSE "listed"]

\* ---- the handlers -------------------------------------------------------
Init ==
  /\ variant \in {"LED", "NEOPIXEL"}
  /\ pc = "boot"
  /\ hw \in [pin : BOOLEAN, isOn : {FALSE}, pixelBuf : {FALSE},
             pixelShown : BOOLEAN]
  /\ (variant = "LED" => ~hw.pixelShown)
  /\ (variant = "NEOPIXEL" => ~hw.pin)
  /\ count = countInit
  /\ usedPercent = <<>>
  /\ serial = <<>>
  /\ slept = <<>>
  /\ fs = NoMount
  /\ toggles = 0
  /\ clock = 0
  /\ remountAt = <<>>
  /\ fsLog = <<>>
  /\ delayTime = delayTimeInit

\* setup() (main.cpp 144-154): what it does to the program's own state.
SetupCore ==
  /\ pc = "boot"
  /\ \E fileSystem \in FsStates :
       LET o == initOutput(hw)
           m == initLittleFs(fileSystem)
       IN  /\ hw' = o.hw
           /\ fs' = fileSystem
           /\ usedPercent' = m.usedPercent
           /\ serial' = <<Text("version", progVersion)>> \o o.lines \o m.lines
  /\ slept' = <<setupDelay>>
  /\ pc' = "loop"
  /\ UNCHANGED <<variant, count>>

\* The history of setup().
SetupHistory ==
  /\ fsLog' = Append(fsLog, LogEntry(0, serial'))
  /\ clock' = clock + Sum(slept')
  /\ UNCHANGED <<toggles, remountAt>>

\* setup() (main.cpp 144-154)
setup ==
  /\ SetupCore
  /\ SetupHistory
  /\ UNCHANGED delayTime

\* Mutant of RemountDue: the threshold is one too high.
RemountDue_Late(c) == c > remountAfter + 1

\* Mutant of RemountDue: >= in place of >.
RemountDue_Ge(c) == c >= remountAfter

\* if (count > 10)
RemountDue(c) == c > remountAfter

\* Mutant of LoopRemountCore: the return is missing, so the re-mounting
\* iteration falls through to count++.
LoopRemountCore_NoReturn ==
  /\ pc = "loop"
  /\ RemountDue(count)
  /\ \E fileSystem \in FsStates :
       LET t == toggleOutput(hw)
           m == initLittleFs(fileSystem)
       IN  /\ hw' = t.hw
           /\ fs' = fileSystem
           /\ usedPercent' = m.usedPercent
           /\ serial' = t.lines \o m.lines
  /\ count' = 0 + 1
  /\ UNCHANGED <<variant, pc>>

\* Mutant of LoopRemountCore: once a mount has failed, later re-mounts are
\* skipped.
LoopRemountCore_SkipAfterFailure ==
  /\ pc = "loop"
  /\ RemountDue(count)
  /\ IF fs.mounted
       THEN \E fileSystem \in FsStates :
              LET t == toggleOutput(hw)
                  m == initLittleFs(fileSystem)
              IN  /\ hw' = t.hw
                  /\ fs' = fileSystem
                  /\ usedPercent' = m.usedPercent
                  /\ serial' = t.lines \o m.lines
       ELSE LET t == toggleOutput(hw)
            IN  /\ hw' = t.hw
                /\ fs' = fs
                /\ usedPercent' = <<>>
                /\ serial' = t.lines
  /\ count' = 0
  /\ UNCHANGED <<variant, pc>>

\* Mutant of LoopRemountCore: a failed mount re-initialises the output.
LoopRemountCore_ReinitOutput ==
  /\ pc = "loop"
  /\ RemountDue(count)
  /\ \E fileSystem \in FsStates :
       LET t == toggleOutput(hw)
           m == initLittleFs(fileSystem)
       IN  /\ hw' = IF fileSystem.mounted THEN t.hw ELSE initOutput(t.hw).hw
           /\ fs' = fileSystem
           /\ usedPercent' = m.usedPercent
           /\ serial' = t.lines \o m.lines
  /\ count' = 0
  /\ UNCHANGED <<variant, pc>>

\* loop() (main.cpp 156-170), the branch that re-mounts: what it does to the
\* program's own state.
LoopRemountCore ==
  /\ pc = "loop"
  /\ RemountDue(count)
  /\ \E fileSystem \in FsStates :
       LET t == toggleOutput(hw)
           m == initLittleFs(fileSystem)
       IN  /\ hw' = t.hw
           /\ fs' = fileSystem
           /\ usedPercent' = m.usedPercent
           /\ serial' = t.lines \o m.lines
  /\ count' = 0
  /\ UNCHANGED <<variant, pc>>

\* Mutant of LoopCountCore: count++ is missing.
LoopCountCore_NoIncrement ==
  /\ pc = "loop"
  /\ ~RemountDue(count)
  /\ LET t == toggleOutput(hw)
     IN  /\ hw' = t.hw
         /\ serial' = t.lines
  /\ usedPercent' = <<>>
  /\ count' = count
  /\ UNCHANGED <<variant, pc, fs>>

\* loop() (main.cpp 156-170), the branch that increments: what it does to the
\* program's own state.
LoopCountCore ==
  /\ pc = "loop"
  /\ ~RemountDue(count)
  /\ LET t == toggleOutput(hw)
     IN  /\ hw' = t.hw
         /\ serial' = t.lines
  /\ usedPercent' = <<>>
  /\ count' = count + 1
  /\ UNCHANGED <<variant, pc, fs>>

\* The history of a loop() iteration that re-mounted.
RemountHistory ==
  /\ toggles' = toggles + 1
  /\ clock' = clock + Sum(slept')
  /\ remountAt' = Append(remountAt, toggles')
  /\ fsLog' = Append(fsLog, LogEntry(toggles', serial'))

\* The history of a loop() iteration that only counted.
CountHistory ==
  /\ toggles' = toggles + 1
  /\ clock' = clock + Sum(slept')
  /\ UNCHANGED <<remountAt, fsLog>>

\* loop() (main.cpp 156-170), the branch that re-mounts
loopRemount ==
  /\ toggles < MaxToggles
  /\ LoopRemountCore
  /\ slept' = <<loopDelay, remountDelay>>
  /\ RemountHistory
  /\ UNCHANGED delayTime

\* loop() (main.cpp 156-170), the branch that increments
loopCount ==
  /\ toggles < MaxToggles
  /\ LoopCountCore
  /\ slept' = <<loopDelay>>
  /\ CountHistory
  /\ UNCHANGED delayTime

loop == loopRemount \/ loopCount

Next == setup \/ loop

Spec == Init /\ [][Next]_vars

\* ---- the run without a bound on the number of iterations ----------------
\* The same handlers with the history left as setup() made it, so the loop
\* can go on for ever in a finite state space.  The Arduino core calls
\* setup() once and then loop() again and again, and every delay() returns:
\* weak fairness on both.
runLoopRemount ==
  /\ LoopRemountCore
  /\ slept' = <<loopDelay, remountDelay>>
  /\ UNCHANGED <<toggles, clock, remountAt, fsLog, delayTime>>

runLoopCount ==
  /\ LoopCountCore
  /\ slept' = <<loopDelay>>
  /\ UNCHANGED <<toggles, clock, remountAt, fsLog, delayTime>>

runLoop == runLoopRemount \/ runLoopCount

RunNext == setup \/ runLoop

RunSpec == Init /\ [][RunNext]_vars /\ WF_vars(setup) /\ WF_vars(runLoop)

\* ---- the build with a configurable interval (project_en.md 299-349) ------
\* Its listFiles, printLittleFsUsage, initOutput and toggleOutput are those of
\* main.cpp on the ESP32; initLittleFs also sets delayTime after a failed
\* mount, and loop() sleeps delayTime and delayTime/2.

\* Mutant of initLittleFsDelay: a successful mount restores the interval.
initLittleFsDelay_Restore(fileSystem, dt) ==
  IF ~fileSystem.mounted THEN degradedDelay ELSE delayTimeInit

\* initLittleFs() (project_en.md 299-321): the value it leaves in delayTime.
initLittleFsDelay(fileSystem, dt) ==
  IF ~fileSystem.mounted THEN degradedDelay ELSE dt

\* setup() (project_en.md 323-333)
delaySetup ==
  /\ SetupCore
  /\ delayTime' = initLittleFsDelay(fs', delayTime)
  /\ SetupHistory

\* loop() (project_en.md 335-349), the branch that re-mounts: delay(delayTime)
\* comes before initLittleFs(), delay(delayTime/2) after it.
delayLoopRemount ==
  /\ toggles < MaxToggles
  /\ LoopRemountCore
  /\ delayTime' = initLittleFsDelay(fs', delayTime)
  /\ slept' = <<delayTime, delayTime' \div 2>>
  /\ RemountHistory

\* loop() (project_en.md 335-349), the branch that increments
delayLoopCount ==
  /\ toggles < MaxToggles
  /\ LoopCountCore
  /\ slept' = <<delayTime>>
  /\ CountHistory
  /\ UNCHANGED delayTime

delayLoop == delayLoopRemount \/ delayLoopCount

DelayNext == delaySetup \/ delayLoop

DelaySpec == Init /\ [][DelayNext]_vars

TypeOK ==
  /\ variant \in {"LED", "NEOPIXEL"}
  /\ pc \in {"boot", "loop"}
  /\ hw \in [pin : BOOLEAN, isOn : BOOLEAN, pixelBuf : BOOLEAN,
             pixelShown : BOOLEAN]
  /\ count \in 0..(remountAfter + 1)
  /\ fs \in FsStates
  /\ toggles \in 0..MaxToggles

\* The state of the physical output: the pin level, or the latched pixel.
OutputOn == IF variant = "LED" THEN hw.pin ELSE hw.pixelShown

\* ---- what the serial output of an invocation shows ----------------------
UsageReported(lines) ==
  Has(lines, "total") \/ Has(lines, "used") \/ Has(lines, "usage")

ListingProduced(lines) ==
  Has(lines, "entry") \/ Has(lines, "noFiles") \/ Has(lines, "openError")

Last(s) == s[Len(s)]

\* ---- C1 -----------------------------------------------------------------
\* C1 as stated: starting from count = 5 the first re-mount of loop() comes
\* exactly at the 6th toggleOutput call (5 toggles without a re-mount).
C1_FirstRemountAtSixthToggle ==
  pc = "loop" =>
    /\ (toggles >= 6 <=> remountAt # <<>>)
    /\ (remountAt # <<>> => remountAt[1] = 6)

\* C1 amended: starting from count = 5 the first re-mount of loop() comes
\* exactly at the 7th toggleOutput call: the first 6 loop iterations toggle
\* without a re-mount, and the re-mount runs in the iteration that made the
\* 7th toggle, after that toggle.
C1_FirstRemountAtSeventhToggle ==
  pc = "loop" =>
    /\ (toggles >= 7 <=> remountAt # <<>>)
    /\ (remountAt # <<>> => remountAt[1] = 7)
    /\ (toggles \in 1..6 => ~Has(serial, "initFs"))
    /\ (toggles = 7 =>
          /\ Len(serial) >= 2
          /\ serial[1].kind = "toggle"
          /\ serial[2].kind = "initFs"
          /\ Len(fsLog) = 2)

C1_Witness == toggles = 7 /\ remountAt = <<7>> /\ Has(serial, "initFs")

\* ---- C2 -----------------------------------------------------------------
\* C2 as stated: every re-mount of loop() is followed by the next one exactly
\* 11 toggleOutput calls later.
C2_RemountEveryEleventhToggle ==
  \A i \in 1..(Len(remountAt) - 1) : remountAt[i + 1] - remountAt[i] = 11

\* C2 amended: every re-mount of loop() is followed by the next one exactly
\* 12 toggleOutput calls later (11 iterations count 0..10 up to 11, the 12th
\* observes count > 10), for every pair of consecutive re-mounts.
C2_RemountEveryTwelfthToggle ==
  /\ \A i \in 1..(Len(remountAt) - 1) : remountAt[i + 1] - remountAt[i] = 12
  /\ (remountAt # <<>> => toggles - Last(remountAt) < 12)
  /\ (remountAt # <<>> => count = toggles - Last(remountAt))

C2_Witness == Len(remountAt) = 3 /\ toggles = remountAt[3]

\* ---- C3 -----------------------------------------------------------------
\* C3: once initOutput has run the output is OFF, and after N toggleOutput
\* calls it is ON exactly when N is odd, in the pin and in the pixel variant,
\* whether or not a re-mount ran between the calls.
C3_OutputParity ==
  pc = "loop" => (OutputOn <=> toggles % 2 = 1)

C3_Witness ==
  /\ variant = "NEOPIXEL"
  /\ toggles = 9
  /\ remountAt = <<7>>
  /\ OutputOn

\* ---- C4 -----------------------------------------------------------------
\* The toggle schedule as a function of the number of toggles alone: the
\* value of count and the time slept after n toggles.
ScheduledRemounts(n) == IF n < 7 THEN 0 ELSE 1 + (n - 7) \div 12

ScheduledCount(n) == IF n < 7 THEN 5 + n ELSE (n - 7) % 12

ScheduledClock(n) == 200 + 2500 * n + 2000 * ScheduledRemounts(n)

C5_NoReportAfterAnyMountFailure ==
  (\E i \in DOMAIN fsLog : ~fsLog[i].mounted) =>
     ~UsageReported(serial) /\ ~ListingProduced(serial)

\* C5 amended: after a mount failure no usage report and no directory
\* listing is produced up to the next scheduled re-mount, where the mount is
\* attempted again; the Output Toggler keeps being invoked, once per loop()
\* iteration.
C5_NoReportUntilNextRemount ==
  (fsLog # <<>> /\ ~Last(fsLog).mounted) =>
     /\ ~UsageReported(serial)
     /\ ~ListingProduced(serial)
     /\ usedPercent = <<>>
     /\ toggles > 0 => Count(serial, "toggle") = 1
     /\ toggles - Last(fsLog).at < 12
     /\ (toggles < MaxToggles => ENABLED loop)

C5_Witness ==
  /\ Len(fsLog) = 2
  /\ ~fsLog[2].mounted
  /\ toggles = 18

\* ---- C6 -----------------------------------------------------------------
\* listFiles ran in the last invocation on a root that opened as a directory.
ListedDirectory ==
  /\ Has(serial, "mountOk")
  /\ fs.root.valid
  /\ fs.root.isDirectory

\* The first openNextFile() on the root returned nothing.
FirstReadEmpty ==
  fs.root.results = <<>> \/ ~fs.root.results[1].valid

\* C6: listing an existing directory whose first openNextFile() returns
\* nothing prints no entry line, prints "no files found" exactly once and
\* does not print the open error; a directory with at least one entry never
\* prints "no files found".
C6_EmptyDirectoryListing ==
  ListedDirectory =>
    /\ FirstReadEmpty =>
          /\ Count(serial, "entry") = 0
          /\ Count(serial, "noFiles") = 1
          /\ ~Has(serial, "openError")
    /\ ~FirstReadEmpty =>
          /\ ~Has(serial, "noFiles")
          /\ Count(serial, "entry") >= 1

C6_Witness ==
  /\ ListedDirectory
  /\ fs.root.results = <<>>
  /\ Count(serial, "noFiles") = 1

\* ---- C7 -----------------------------------------------------------------
\* The entries the driver enumerates: its results before the first empty one.
FirstEmpty(results) ==
  IF \E i \in DOMAIN results : ~results[i].valid
    THEN CHOOSE i \in DOMAIN results :
           /\ ~results[i].valid
           /\ \A j \in 1..(i - 1) : results[j].valid
    ELSE Len(results) + 1

Enumerated(results) == SubSeq(results, 1, FirstEmpty(results) - 1)

IsEntry(line) == line.kind = "entry"

EntryLines(lines) == SelectSeq(lines, IsEntry)

\* C7: for the sequence e1..en the driver enumerates, listFiles prints
\* exactly n entry lines in the driver's order, the i-th tagged DIR or FILE
\* as ei.isDirectory says, with a size exactly for the entries that are not
\* directories; it stops at the first empty openNextFile() result and prints
\* nothing that lies inside a subdirectory.
C7_ListingMatchesEnumeration ==
  ListedDirectory =>
    LET e == Enumerated(fs.root.results)
        printed == EntryLines(serial)
    IN  /\ Len(printed) = Len(e)
        /\ \A i \in 1..Len(e) :
             /\ i <= Len(printed)
             /\ printed[i].name = e[i].name
             /\ printed[i].text = (IF e[i].isDirectory THEN "DIR : " ELSE "FILE: ")
             /\ printed[i].sized = ~e[i].isDirectory
             /\ (~e[i].isDirectory => printed[i].num = e[i].size)
        /\ \A i \in DOMAIN printed, j \in DOMAIN e :
             \A k \in DOMAIN e[j].children :
               printed[i].name # e[j].children[k].name

C7_Witness ==
  /\ ListedDirectory
  /\ fs.root.results = <<Logs, DataBin>>
  /\ Count(serial, "entry") = 2

\* ---- C8 -----------------------------------------------------------------
\* C8: the usedPercent reported for a snapshot is usedBytes*100/totalBytes
\* when totalBytes > 0 and is 0 when totalBytes = 0, where no division is
\* performed (the value is the finite 0, not the nan or inf of a division by
\* zero); "%.2f" prints it to the nearest hundredth.
C8_UsedPercent ==
  usedPercent # <<>> =>
    LET p == usedPercent[1]
        line == serial[CHOOSE i \in DOMAIN serial : serial[i].kind = "usage"]
    IN  /\ Count(serial, "usage") = 1
        /\ p.class = "finite"
        /\ line.text = "finite"
        /\ fs.totalBytes > 0 =>
             /\ p.num = fs.usedBytes * 100
             /\ p.den = fs.totalBytes
        /\ (fs.totalBytes > 0 /\ fs.totalBytes < 1000) =>
             /\ 2 * (line.num * fs.totalBytes - fs.usedBytes * 10000) <= fs.totalBytes
             /\ 2 * (fs.usedBytes * 10000 - line.num * fs.totalBytes) <= fs.totalBytes
        /\ (fs.totalBytes = 1000000 /\ fs.usedBytes = 250000) => line.num = 2500
        /\ fs.totalBytes = 0 =>
             /\ p.num = 0
             /\ line.num = 0

C8_Witness ==
  /\ usedPercent # <<>>
  /\ fs.totalBytes = 0
  /\ usedPercent[1].num = 0

\* ---- C9 -----------------------------------------------------------------
\* The toggle counts at which initLittleFs() ran: boot, then every re-mount.
MountSchedule == <<0>> \o remountAt

\* C9 as stated: after an open error the listing is attempted again at the
\* next scheduled re-mount.
C9_ListingRetriedAtNextRemount ==
  \A i \in 1..(Len(fsLog) - 1) :
    fsLog[i].list = "openError" => fsLog[i + 1].list # "skipped"

\* C9 amended: on an open error listFiles prints the open-error message, no
\* entry line and no "no files found"; count, the output state and the
\* cadence are those of any other invocation; the listing is attempted again
\* only at the next scheduled re-mount, and there exactly when that re-mount's
\* mount succeeds.
C9_OpenErrorSkipsListingOnce ==
  /\ Has(serial, "openError") =>
       /\ Count(serial, "openError") = 1
       /\ ~Has(serial, "entry")
       /\ ~Has(serial, "noFiles")
       /\ ListedDirectory = FALSE
       /\ Has(serial, "mountOk")
       /\ Last(fsLog).list = "openError"
       /\ Last(fsLog).at = toggles
  /\ (fsLog # <<>> /\ Last(fsLog).list = "openError") =>
       /\ count = ScheduledCount(toggles)
       /\ (OutputOn <=> toggles % 2 = 1)
       /\ clock = ScheduledClock(toggles)
  /\ pc = "loop" => [i \in DOMAIN fsLog |-> fsLog[i].at] = MountSchedule
  /\ ListingProduced(serial) => Has(serial, "initFs")
  /\ \A i \in 1..(Len(fsLog) - 1) :
       fsLog[i].list = "openError" =>
         /\ fsLog[i + 1].at = fsLog[i].at + (IF i = 1 THEN 7 ELSE 12)
         /\ (fsLog[i + 1].list # "skipped" <=> fsLog[i + 1].mounted)

C9_Witness ==
  /\ Len(fsLog) = 3
  /\ fsLog[2].list = "openError"
  /\ fsLog[3].list = "listed"
  /\ toggles = 19

\* ---- C10 ----------------------------------------------------------------
\* C10: every toggleOutput call prints exactly one report line, and the state
\* it names is the state of the physical output after the call, in the pin
\* and in the pixel variant.
C10_ToggleReportMatchesOutput ==
  (pc = "loop" /\ toggles > 0) =>
    /\ Count(serial, "toggle") = 1
    /\ serial[1].kind = "toggle"
    /\ serial[1].text = (IF OutputOn THEN "ON" ELSE "OFF")

C10_Witness ==
  /\ variant = "NEOPIXEL"
  /\ toggles = 1
  /\ OutputOn
  /\ serial = <<Text("toggle", "ON")>>

\* ---- C11 ----------------------------------------------------------------
\* C11: every loop() iteration calls toggleOutput exactly once, before the
\* test of count; if count > 10 at the test the re-mount/report sequence runs
\* and count becomes 0 without being incremented, otherwise no re-mount runs
\* and count grows by exactly 1.
C11_LoopIterationCountsOrRemounts ==
  [][pc = "loop" =>
       /\ toggles' = toggles + 1
       /\ Count(serial', "toggle") = 1
       /\ serial'[1].kind = "toggle"
       /\ OutputOn' = ~OutputOn
       /\ IF count > 10
            THEN /\ Len(serial') >= 2
                 /\ serial'[2].kind = "initFs"
                 /\ Count(serial', "initFs") = 1
                 /\ Len(fsLog') = Len(fsLog) + 1
                 /\ count' = 0
            ELSE /\ serial' = <<serial'[1]>>
                 /\ fsLog' = fsLog
                 /\ count' = count + 1]_vars

C11_Witness ==
  /\ pc = "loop"
  /\ toggles = 19
  /\ count = 0
  /\ serial[1].kind = "toggle"
  /\ Count(serial, "initFs") = 1

\* ---- C12 ----------------------------------------------------------------
\* The places in `lines` of the lines of the given kinds.
Places(lines, kinds) == {i \in DOMAIN lines : lines[i].kind \in kinds}

\* C12: in every initLittleFs() invocation, at boot and at each re-mount, the
\* mount comes first; the usage report and the listing run only after a
\* successful mount of that invocation, the usage report before the listing;
\* when the mount fails neither of them runs.
C12_MountThenUsageThenListing ==
  Has(serial, "initFs") =>
    LET start == Places(serial, {"initFs"})
        mount == Places(serial, {"mountOk", "mountFail"})
        usage == Places(serial, {"total", "used", "usage"})
        listing == Places(serial, {"entry", "noFiles", "openError"})
    IN  /\ Cardinality(start) = 1
        /\ Cardinality(mount) = 1
        /\ \A i \in start, m \in mount : i < m
        /\ Has(serial, "mountOk") <=> fs.mounted
        /\ \A m \in mount, r \in usage \cup listing : m < r
        /\ \A u \in usage, l \in listing : u < l
        /\ fs.mounted =>
             /\ Cardinality(usage) = 3
             /\ listing # {}
             /\ usedPercent # <<>>
        /\ ~fs.mounted =>
             /\ usage = {}
             /\ listing = {}
             /\ usedPercent = <<>>

C12_Witness ==
  /\ toggles = 7
  /\ fs.mounted
  /\ Count(serial, "usage") = 1
  /\ Count(serial, "entry") = 2

\* ---- C13 ----------------------------------------------------------------
\* C13: the re-mount/report sequence leaves the output state and count as
\* they are, whether the mount succeeds, the mount fails or the root cannot
\* be opened: in setup() count keeps its value and the output is what
\* initOutput made it; in a loop() iteration the output is flipped exactly
\* once (by toggleOutput, which leaves count alone) and count is changed by
\* loop() alone, to 0 or by one, whatever initLittleFs() met.
C13_RemountLeavesOutputAndCount ==
  [][/\ pc = "boot" =>
          /\ count' = count
          /\ ~OutputOn'
          /\ hw'.isOn = hw.isOn
     /\ pc = "loop" =>
          /\ OutputOn' = ~OutputOn
          /\ hw'.isOn = (IF variant = "NEOPIXEL" THEN ~hw.isOn ELSE hw.isOn)
          /\ (variant = "LED" => hw'.pixelShown = hw.pixelShown)
          /\ (variant = "NEOPIXEL" => hw'.pin = hw.pin)
          /\ count' = (IF Has(serial', "initFs") THEN 0 ELSE count + 1)
          /\ (Has(serial', "initFs") => count = remountAfter + 1)]_vars

C13_Witness ==
  /\ toggles = 7
  /\ Last(fsLog).list = "openError"
  /\ Has(serial, "openError")
  /\ count = 0
  /\ OutputOn

\* ---- C14 ----------------------------------------------------------------
\* C14: the program has no terminal state: some handler can always run, and
\* with every sleep and every directory enumeration finishing toggleOutput is
\* called infinitely often and the re-mount/report sequence runs infinitely
\* often, whatever the mounts and opens return.
C14_RunsForever ==
  /\ [](ENABLED <<RunNext>>_vars)
  /\ []<><<runLoop>>_vars
  /\ []<><<runLoopRemount>>_vars
  /\ []<>(pc = "loop" /\ OutputOn)
  /\ []<>(pc = "loop" /\ ~OutputOn)

C14_Witness ==
  /\ pc = "loop"
  /\ count = 3
  /\ ~fs.mounted
  /\ fsLog[1].mounted
  /\ Count(serial, "toggle") = 1

\* ---- C15 ----------------------------------------------------------------
\* C15: in every reachable state 0 <= count <= 11, so count cannot overflow;
\* loop() re-mounts exactly in the iterations that find count = 11.
C15_CountBounded ==
  /\ [](count \in 0..11)
  /\ [][pc = "loop" => (Has(serial', "initFs") <=> count = 11)]_vars

C15_Witness ==
  /\ pc = "loop"
  /\ count = 11
  /\ ~Has(serial, "initFs")
  /\ ~fs.mounted

\* ---- C16 ----------------------------------------------------------------
\* C16: a mount is attempted at boot and at every scheduled re-mount whatever
\* the earlier attempts returned: a failed mount never disables a later
\* attempt, which can succeed or fail, and an attempt that succeeds prints
\* the usage report and the directory listing again.
C16_MountAttemptedEveryTime ==
  pc = "loop" =>
    /\ Len(fsLog) = 1 + ScheduledRemounts(toggles)
    /\ \A i \in DOMAIN fsLog :
         fsLog[i].at = (IF i = 1 THEN 0 ELSE 7 + 12 * (i - 2))
    /\ Last(fsLog).at = toggles =>
         /\ Count(serial, "initFs") = 1
         /\ Cardinality(Places(serial, {"mountOk", "mountFail"})) = 1
         /\ Last(fsLog).mounted = fs.mounted
         /\ fs.mounted => UsageReported(serial) /\ ListingProduced(serial)
    /\ (count > 10 /\ toggles < MaxToggles) =>
         /\ ENABLED (loopRemount /\ fs'.mounted)
         /\ ENABLED (loopRemount /\ ~fs'.mounted)

C16_Witness ==
  /\ toggles = 19
  /\ Len(fsLog) = 3
  /\ ~fsLog[1].mounted
  /\ ~fsLog[2].mounted
  /\ fsLog[3].mounted
  /\ UsageReported(serial)
  /\ Has(serial, "entry")

\* ---- C17 ----------------------------------------------------------------
\* A mount has failed in this run.
MountHasFailed == \E i \in DOMAIN fsLog : ~fsLog[i].mounted

\* C17: in the build with a configurable interval delayTime is always 2000 or
\* 1000; it becomes 1000 at the first failed mount and is never restored, so
\* from then on every toggle interval is 1000 ms and every sleep after a
\* re-mount 500 ms, also after a later mount has succeeded.
C17_DelayTimeLatchesAtFirstFailure ==
  /\ [](delayTime \in {2000, 1000})
  /\ [](pc = "loop" => (delayTime = 1000 <=> MountHasFailed))
  /\ [][delayTime = 1000 => delayTime' = 1000]_vars
  /\ [][(pc = "loop" /\ MountHasFailed) =>
          /\ slept'[1] = 1000
          /\ Len(slept') = 2 => slept'[2] = 500]_vars
  /\ [][(pc = "loop" /\ ~MountHasFailed) =>
          /\ slept'[1] = 2000
          /\ Len(slept') = 2 =>
               slept'[2] = (IF fs'.mounted THEN 1000 ELSE 500)]_vars

C17_Witness ==
  /\ Len(fsLog) = 3
  /\ fsLog[1].mounted
  /\ ~fsLog[2].mounted
  /\ fsLog[3].mounted
  /\ delayTime = 1000
  /\ slept = <<1000, 500>>

====
